---- MODULE Spec2Model ----
(***************************************************************************)
(* A model of lazylights.py: the _retry helper, the Callbacks dispatcher,  *)
(* the PacketSender, and the Lifx session (connect, run, set_power_state)  *)
(* with its worker threads.                                                *)
(*                                                                         *)
(* Threads are interleaved one source statement (or one queue/event/lock   *)
(* operation) at a time.  A timed wait is modelled without a clock: the    *)
(* timeout may expire whenever the awaited flag is still clear.            *)
(***************************************************************************)
EXTENDS Integers, Sequences, FiniteSets, TLC

\* ---------------------------------------------------------------- bounds
\* largest `attempts` argument of a stand-alone _retry loop
MaxAttempts == 2
\* runs of the body of a stand-alone _retry loop that are counted
MaxEffects == 4

\* puts on the dispatcher queue by the producers of a stand-alone Callbacks
MaxPuts == 3
\* handlers registered on a stand-alone Callbacks
MaxFns == 2

\* raw packets put on the queue of a stand-alone PacketSender
MaxSends == 3
\* Gateway records put on the queue of a stand-alone PacketSender
MaxBinds == 2

\* largest `attempts` argument a client passes to connect
MaxConnectAttempts == 1
\* runs of the body of each for loop of connect that are counted
MaxRounds == 2
\* datagrams the Receiver takes off its socket in a session under run()
MaxRecv == 3
\* largest num_bulbs a session under run() is constructed with
MaxBulbs == 2
\* datagrams the Receiver takes off its socket while a client's own call
\* of connect goes on
MaxConnectRecv == 2
\* largest num_bulbs of a client that calls connect itself
MaxConnectBulbs == 1
\* set_power_state calls in the body of one session
MaxCalls == 1
\* set_power_state calls in the body of a session that never ends its body
MaxRepeatCalls == 2
\* messages waiting for the dispatcher beyond which the network holds a
\* datagram back
MaxQueue == 1
\* messages waiting for a running Logger beyond which a thread about to log
\* is held back
MaxLog == 1

\* ------------------------------------------------------------- constants
SERVICE_UDP == "0x01"
SERVICE_TCP == "0x02"

RESP_GATEWAY == "0x03"
RESP_POWER_STATE == "0x16"
RESP_LIGHT_STATE == "0x6b"

REQ_GATEWAY == "0x02"
REQ_SET_POWER_STATE == "0x15"
REQ_GET_LIGHT_STATE == "0x65"
REQ_SET_LIGHT_STATE == "0x66"

\* ALL_BULBS = '\x00' * 6
ALL_BULBS == "00:00:00:00:00:00"

DISCOVERY_PROTOCOL == "0x5400"
COMMAND_PROTOCOL == "0x3400"

\* the keys of _PAYLOADS
PAYLOADS == {RESP_GATEWAY, RESP_POWER_STATE, RESP_LIGHT_STATE}
\* a packet type code that is not a key of _PAYLOADS
RESP_OTHER == "0x19"

EVENT_DISCOVERED == "discovered"
EVENT_CONNECTED == "connected"
EVENT_BULBS_FOUND == "bulbs_found"
EVENT_UNKNOWN == "unknown"
EVENT_LIGHT_STATE == "light_state"
EVENT_POWER_STATE == "power_state"

\* _SHUTDOWN = object(): the sentinel, told apart from every message by its key
SHUTDOWN == [event |-> "_SHUTDOWN"]

\* threading.Event objects of the program, by attribute name; "event" is the
\* argument of a stand-alone _retry loop
EventNames ==
  {"event", "gateway_found_event", "bulbs_found_event", "power_state_event",
   "light_state_event", "is_connected", "is_shutdown"}

VARIABLES
  ev,           \* EventNames -> BOOLEAN: the flag of each threading.Event
  \* --- the _retry generator and the for loop that drives it
  r_event,      \* the Event the generator was given
  r_attempts,   \* its `attempts` argument
  attempted,    \* its local `attempted`
  ok,           \* the loop variable `ok` (last value yielded)
  r_pc,         \* position of the generator / loop
  effects,      \* number of times the loop body ran in this loop
  set_in_wait   \* value of `effects` when the event was set during a wait (0: never)

VARIABLES
  \* --- Callbacks (the dispatcher) and the thread in Callbacks.run
  cb_callbacks, \* self._callbacks: key -> sequence of handlers (<<>>: key absent)
  cb_queue,     \* self._queue
  cb_pc,        \* position of the thread in run()
  cb_msg,       \* the message it dequeued last
  cb_idx,       \* handlers of cb_msg already called (the list iterator's index)
  cb_live,      \* whether the for loop iterates the registered list (key present)
  cb_seen,      \* number of handlers registered for cb_msg's key when it was dequeued
  cb_puts,      \* number of put() calls so far; it numbers the messages
  cb_log,       \* every handler call so far: <<message, handler>> (numbered messages)
  \* --- Logger
  l_queue       \* self._queue of the Logger

VARIABLES
  \* --- PacketSender and the thread in PacketSender.run
  s_queue,      \* self._queue
  s_gateway,    \* self._gateway (NoGateway: None)
  s_pc,         \* position of the thread in run()
  s_sent,       \* what sock.sendto has sent so far: the set of <<packet, destination>>
  s_puts,       \* what clients of a stand-alone PacketSender have put and stopped, in order
  c_exc         \* the exception raised to the calling thread ("none": none)

VARIABLES
  \* --- Lifx
  num_bulbs,    \* self.num_bulbs
  gateway,      \* self.gateway (NoGateway: None)
  bulbs,        \* self.bulbs: the hardware addresses it has an entry for
  power_state,  \* self.power_state: likewise
  light_state,  \* self.light_state: likewise
  lock,         \* self.lock: the thread holding it ("none": free)
  \* --- the Receiver's and the Logger's threads
  rx_pc,        \* position of the thread in PacketReceiver.run
  rx_count,     \* datagrams received so far
  l_pc,         \* position of the thread in Logger.run
  \* --- the client's thread
  mode,         \* what the client does: "run": with lifx.run(): a body of
                \* set_power_state calls; "pass": with lifx.run(): pass;
                \* "connect": lifx.connect(attempts, delay); "listen": run()
                \* with connect left at its discovery
  c_attempts,   \* the attempts argument of connect
  c_pc,         \* position of the client's thread
  c_calls,      \* blocking commands called so far
  sps_timeout,  \* the timeout argument of the current blocking command
  sps_result,   \* what the last set_power_state call returned, and how its wait ended
  lifecycle     \* the lifecycle events connect has put on the dispatcher queue

VARIABLES
  \* --- a caller of build_packet and parse_packet
  pk_args,      \* the arguments of build_packet
  pk_bytes,     \* the bytestring build_packet returned (<<>>: not called yet)
  pk_parsed     \* what parse_packet made of it

retryVars == <<r_event, r_attempts, attempted, ok, r_pc, effects, set_in_wait>>
cbVars == <<cb_callbacks, cb_queue, cb_pc, cb_msg, cb_idx, cb_live, cb_seen, cb_puts, cb_log>>
senderVars == <<s_queue, s_gateway, s_pc, s_sent, s_puts>>

lifxVars == <<num_bulbs, gateway, bulbs, power_state, light_state, lock>>
workerVars == <<rx_pc, rx_count, l_pc>>
clientVars == <<mode, c_attempts, c_pc, c_calls, sps_timeout, sps_result, lifecycle>>
packetVars == <<pk_args, pk_bytes, pk_parsed>>

vars == <<ev, retryVars, cbVars, l_queue, senderVars, c_exc, lifxVars, workerVars,
          clientVars, packetVars>>

\* what the steps of one component leave alone
notRetry == <<cbVars, l_queue, senderVars, c_exc, lifxVars, workerVars, clientVars, packetVars>>
notCb == <<ev, retryVars, senderVars, c_exc, lifxVars, workerVars, clientVars, packetVars>>
notSender == <<retryVars, cbVars, l_queue, lifxVars, workerVars, clientVars, packetVars>>

\* ======================================================================
\* _retry(event, attempts, delay)            src/lazylights.py 140-162
\* ======================================================================

\* event.clear(); attempted = 0
retry_clear ==
  /\ r_pc = "clear"
  /\ ev' = [ev EXCEPT ![r_event] = FALSE]
  /\ attempted' = 0
  /\ r_pc' = "while"
  /\ UNCHANGED <<r_event, r_attempts, ok, effects, set_in_wait>>
  /\ UNCHANGED notRetry

\* while attempted < attempts and not event.is_set():
RetryWhileCond == attempted < r_attempts /\ ~ev[r_event]

retry_while ==
  /\ r_pc = "while"
  /\ r_pc' = IF RetryWhileCond THEN "yield" ELSE "last_yield"
  /\ UNCHANGED <<ev, r_event, r_attempts, attempted, ok, effects, set_in_wait>>
  /\ UNCHANGED notRetry

\* yield attempted, event.is_set()      (inside the loop)
retry_yield ==
  /\ r_pc = "yield"
  /\ ok' = ev[r_event]
  /\ r_pc' = "body"
  /\ UNCHANGED <<ev, r_event, r_attempts, attempted, effects, set_in_wait>>
  /\ UNCHANGED notRetry

\* if event.wait(delay): break
\* Event.wait returns the flag: True as soon as it is set, False once the
\* delay has passed with the flag still clear.  `attempted` is not changed.
retry_wait ==
  /\ r_pc = "wait"
  /\ r_pc' = IF ev[r_event] THEN "last_yield" ELSE "while"
  /\ UNCHANGED <<ev, r_event, r_attempts, attempted, ok, effects, set_in_wait>>
  /\ UNCHANGED notRetry

\* yield attempted, event.is_set()      (after the loop)
retry_last_yield ==
  /\ r_pc = "last_yield"
  /\ ok' = ev[r_event]
  /\ r_pc' = "last_body"
  /\ UNCHANGED <<ev, r_event, r_attempts, attempted, effects, set_in_wait>>
  /\ UNCHANGED notRetry

\* The for loop runs its body once per yielded pair and then resumes the
\* generator: after a yield inside the loop at the wait, after the last
\* yield at the end of the generator (StopIteration ends the for loop).
RetryResume == IF r_pc = "body" THEN "wait" ELSE "stop"

InBody == r_pc \in {"body", "last_body"}

\* for num, ok in _retry(event, N, delay): do_async_thing_that_sets_event()
side_effect ==
  /\ InBody
  /\ r_event = "event"
  /\ effects < MaxEffects
  /\ effects' = effects + 1
  /\ r_pc' = RetryResume
  /\ UNCHANGED <<ev, r_event, r_attempts, attempted, ok, set_in_wait>>
  /\ UNCHANGED notRetry

\* another thread calls event.set() while the loop runs
event_set ==
  /\ r_event = "event"
  /\ r_pc \notin {"clear", "stop"}
  /\ ~ev["event"]
  /\ ev' = [ev EXCEPT !["event"] = TRUE]
  /\ set_in_wait' = IF r_pc = "wait" THEN effects ELSE set_in_wait
  /\ UNCHANGED <<r_event, r_attempts, attempted, ok, r_pc, effects>>
  /\ UNCHANGED notRetry

RetryStep ==
  \/ retry_clear
  \/ retry_while
  \/ retry_yield
  \/ retry_wait
  \/ retry_last_yield


\* ======================================================================
\* class Callbacks                            src/lazylights.py 189-233
\* ======================================================================

\* the functions a client registers, in the order of their registration
FnNames == <<"f1", "f2", "f3", "f4">>
UserFns == {FnNames[i] : i \in 1..Len(FnNames)}
\* the keys the producers of a stand-alone Callbacks use
TestKeys == {EVENT_DISCOVERED, EVENT_CONNECTED}
Producers == {"t1", "t2"}

RegisterFirst(callbacks, event, fn) ==
  [callbacks EXCEPT ![event] = <<fn>> \o @]

\* self._callbacks.setdefault(event, []).append(fn)
Register(callbacks, event, fn) ==
  [callbacks EXCEPT ![event] = Append(@, fn)]

\* a put that makes the item the next one taken
QueuePutFront(queue, item) == <<item>> \o queue

\* self._queue.put(item)
QueuePut(queue, item) == Append(queue, item)

\* a get that takes the item put last
QueueGetLast(queue) == <<queue[Len(queue)], SubSeq(queue, 1, Len(queue) - 1)>>

\* msg = self._queue.get(): the item taken and the queue left
QueueGet(queue) == <<Head(queue), Tail(queue)>>

\* self._callbacks.get(event, []): the registered list, or a new empty one
Handlers(event) == cb_callbacks[event]

\* Logger.__call__: self._queue.put(msg % args)
LoggerCall(queue) == QueuePut(queue, [msg |-> "text"])

\* the Logger keeps up: it is not running, or has room
LoggerKeepsUp == l_pc # "get" \/ Len(l_queue) < MaxLog

\* the list iterator of `for func in ...`: the next function, if any.  It
\* reads the registered list itself, so it sees what register() appends
\* while the loop runs; a key absent at the start gives an empty loop.
HasNextFn == cb_live /\ cb_idx < Len(Handlers(cb_msg.event))
NextFn == Handlers(cb_msg.event)[cb_idx + 1]

\* the record of a handler call, kept for the messages that carry a number
Logged(fn) ==
  IF "id" \in DOMAIN cb_msg THEN Append(cb_log, <<cb_msg, fn>>) ELSE cb_log

\* Callbacks.register(event, fn), from any thread at any time
register(event) ==
  /\ LET n == Cardinality({f \in UserFns : \E k \in DOMAIN cb_callbacks :
                             \E i \in 1..Len(cb_callbacks[k]) : cb_callbacks[k][i] = f})
     IN /\ n < MaxFns
        /\ n < Len(FnNames)
        /\ cb_callbacks' = Register(cb_callbacks, event, FnNames[n + 1])
  /\ UNCHANGED <<cb_queue, cb_pc, cb_msg, cb_idx, cb_live, cb_seen, cb_puts, cb_log>>
  /\ UNCHANGED <<l_queue>>
  /\ UNCHANGED notCb

\* Callbacks.put(event, *args, **kwargs) by producer thread t
put(t, event) ==
  /\ cb_puts < MaxPuts
  /\ cb_puts' = cb_puts + 1
  /\ cb_queue' = QueuePut(cb_queue, [event |-> event, id |-> cb_puts + 1, by |-> t])
  /\ UNCHANGED <<cb_callbacks, cb_pc, cb_msg, cb_idx, cb_live, cb_seen, cb_log>>
  /\ UNCHANGED <<l_queue>>
  /\ UNCHANGED notCb

\* Callbacks.stop(): self._queue.put(_SHUTDOWN)
stop_callbacks ==
  /\ \A i \in 1..Len(cb_queue) : cb_queue[i] # SHUTDOWN
  /\ cb_pc # "exit"
  /\ cb_queue' = QueuePut(cb_queue, SHUTDOWN)
  /\ UNCHANGED <<cb_callbacks, cb_pc, cb_msg, cb_idx, cb_live, cb_seen, cb_puts, cb_log>>
  /\ UNCHANGED <<l_queue>>
  /\ UNCHANGED notCb

\* Callbacks.run, top of the loop: msg = self._queue.get(); if msg is
\* _SHUTDOWN: break; self._logger('<< %s', event); start of the for loop.
\* With no list registered for the key the loop is over a new empty list,
\* which nothing can change: it ends at once.
callbacks_get ==
  /\ cb_pc = "get"
  /\ cb_queue # <<>>
  /\ Head(cb_queue) = SHUTDOWN \/ LoggerKeepsUp
  /\ LET got == QueueGet(cb_queue)
     IN /\ cb_queue' = got[2]
        /\ cb_msg' = got[1]
        /\ IF got[1] = SHUTDOWN
           THEN /\ cb_pc' = "exit"
                /\ UNCHANGED <<cb_idx, cb_live, cb_seen, l_queue>>
           ELSE /\ cb_pc' = IF Handlers(got[1].event) # <<>> THEN "for" ELSE "get"
                /\ cb_idx' = 0
                /\ cb_live' = (Handlers(got[1].event) # <<>>)
                /\ cb_seen' = Len(Handlers(got[1].event))
                /\ l_queue' = LoggerCall(l_queue)
  /\ UNCHANGED <<cb_callbacks, cb_puts, cb_log>>
  /\ UNCHANGED notCb

\* func(*args, **kwargs) for a client's function that returns
callbacks_call ==
  /\ cb_pc = "for"
  /\ HasNextFn
  /\ NextFn \in UserFns
  /\ cb_log' = Logged(NextFn)
  /\ cb_idx' = cb_idx + 1
  /\ UNCHANGED <<cb_callbacks, cb_queue, cb_pc, cb_msg, cb_live, cb_seen, cb_puts>>
  /\ UNCHANGED <<l_queue>>
  /\ UNCHANGED notCb

\* func(*args, **kwargs) for a client's function that raises: nothing in
\* run() catches it, so it ends run() and with it the thread
callbacks_call_raises ==
  /\ cb_pc = "for"
  /\ HasNextFn
  /\ NextFn \in UserFns
  /\ cb_log' = Logged(NextFn)
  /\ cb_pc' = "dead"
  /\ UNCHANGED <<cb_callbacks, cb_queue, cb_msg, cb_idx, cb_live, cb_seen, cb_puts>>
  /\ UNCHANGED <<l_queue>>
  /\ UNCHANGED notCb

\* the for loop is exhausted: back to the top of the while loop
callbacks_next ==
  /\ cb_pc = "for"
  /\ ~HasNextFn
  /\ cb_pc' = "get"
  /\ UNCHANGED <<cb_callbacks, cb_queue, cb_msg, cb_idx, cb_live, cb_seen, cb_puts, cb_log>>
  /\ UNCHANGED <<l_queue>>
  /\ UNCHANGED notCb

\* Callbacks.__init__ (195-198), its thread started
InitCallbacksOnly ==
  /\ cb_callbacks = [k \in TestKeys |-> <<>>]
  /\ cb_queue = <<>>
  /\ cb_pc = "get"
  /\ cb_msg = SHUTDOWN
  /\ cb_idx = 0
  /\ cb_live = FALSE
  /\ cb_seen = 0
  /\ cb_puts = 0
  /\ cb_log = <<>>
  /\ l_queue = <<>>


\* ======================================================================
\* class PacketSender                         src/lazylights.py 289-339
\* ======================================================================

\* self._gateway = None
NoGateway == [none |-> TRUE]

\* Gateway = namedtuple('Gateway', 'addr port mac')
Gateway(addr, port, mac) == [addr |-> addr, port |-> port, mac |-> mac]

\* isinstance(to_send, Gateway)
IsGateway(item) == "addr" \in DOMAIN item

\* the addresses gateways answer from, their ports and hardware addresses
Addrs == {"10.0.0.1", "10.0.0.2"}
Ports == {"56700"}
GatewayMacs == {"99:88:77:66:55:44"}
Gateways == {Gateway(a, p, m) : a \in Addrs, p \in Ports, m \in GatewayMacs}

\* the bytestrings a client of a stand-alone PacketSender sends
RawPackets == {[data |-> "p1"], [data |-> "p2"]}

\* a bytestring, neither a Gateway nor the sentinel
IsRaw(item) == "data" \in DOMAIN item

\* the bytestring made of data and the number the put has among the
\* client's calls, so that no bytestring is put twice
Numbered(packet) == [data |-> packet.data, nr |-> Len(s_puts) + 1]

\* PacketSender.put(packet) with a raw packet, by a client thread: the
\* call only enqueues, and returns
sender_put(packet) ==
  /\ Cardinality({i \in 1..Len(s_puts) : IsRaw(s_puts[i])}) < MaxSends
  /\ s_puts' = Append(s_puts, packet)
  /\ s_queue' = QueuePut(s_queue, packet)
  /\ c_exc' = "none"
  /\ UNCHANGED <<ev, s_gateway, s_pc, s_sent>>
  /\ UNCHANGED notSender

\* PacketSender.put(gateway) with a Gateway record, by a client thread
sender_put_gateway(gw) ==
  /\ Cardinality({i \in 1..Len(s_puts) : IsGateway(s_puts[i])}) < MaxBinds
  /\ s_puts' = Append(s_puts, gw)
  /\ s_queue' = QueuePut(s_queue, gw)
  /\ c_exc' = "none"
  /\ UNCHANGED <<ev, s_gateway, s_pc, s_sent>>
  /\ UNCHANGED notSender

\* PacketSender.stop(): self._queue.put(_SHUTDOWN)
sender_stop ==
  /\ \A i \in 1..Len(s_queue) : s_queue[i] # SHUTDOWN
  /\ s_pc = "get"
  /\ s_queue' = QueuePut(s_queue, SHUTDOWN)
  /\ s_puts' = Append(s_puts, SHUTDOWN)
  /\ UNCHANGED <<ev, s_gateway, s_pc, s_sent, c_exc>>
  /\ UNCHANGED notSender

\* PacketSender.run, one turn of the loop: take an item; the sentinel ends
\* the loop; a Gateway is stored and the connected Event set; anything else
\* is sent to the stored gateway, or, with none stored, SendException is
\* raised in this thread and ends it
sender_run ==
  /\ s_pc = "get"
  /\ s_queue # <<>>
  /\ LET got == QueueGet(s_queue)
         to_send == got[1]
     IN /\ s_queue' = got[2]
        /\ IF to_send = SHUTDOWN
           THEN /\ s_pc' = "exit"
                /\ UNCHANGED <<ev, s_gateway, s_sent>>
           ELSE IF IsGateway(to_send)
           THEN /\ s_gateway' = to_send
                /\ ev' = [ev EXCEPT !["is_connected"] = TRUE]
                /\ UNCHANGED <<s_pc, s_sent>>
           ELSE IF s_gateway = NoGateway
           THEN /\ s_pc' = "dead"
                /\ UNCHANGED <<ev, s_gateway, s_sent>>
           ELSE /\ s_sent' = s_sent \cup {<<to_send, <<s_gateway.addr, s_gateway.port>>>>}
                /\ UNCHANGED <<ev, s_gateway, s_pc>>
  /\ UNCHANGED <<s_puts, c_exc>>
  /\ UNCHANGED notSender

\* PacketSender.__init__ (295-298)
InitSenderOnly ==
  /\ s_queue = <<>>
  /\ s_gateway = NoGateway
  /\ s_sent = {}
  /\ s_puts = <<>>
  /\ c_exc = "none"

RetryIdle ==
  /\ ev = [e \in EventNames |-> FALSE]
  /\ r_event = "event"
  /\ r_attempts = 0
  /\ attempted = 0
  /\ ok = FALSE
  /\ r_pc = "idle"
  /\ effects = 0
  /\ set_in_wait = 0

CallbacksIdle ==
  /\ cb_callbacks = [k \in {} |-> <<>>]
  /\ cb_queue = <<>>
  /\ cb_pc = "idle"
  /\ cb_msg = SHUTDOWN
  /\ cb_idx = 0
  /\ cb_live = FALSE
  /\ cb_seen = 0
  /\ cb_puts = 0
  /\ cb_log = <<>>
  /\ l_queue = <<>>


\* ======================================================================
\* class Logger                               src/lazylights.py 342-372
\* ======================================================================

\* Logger.run, one turn of the loop (Lifx builds its Logger disabled, so a
\* message is taken and dropped)
logger_run ==
  /\ l_pc = "get"
  /\ l_queue # <<>>
  /\ LET got == QueueGet(l_queue)
     IN /\ l_queue' = got[2]
        /\ l_pc' = IF got[1] = SHUTDOWN THEN "exit" ELSE "get"
  /\ UNCHANGED <<ev, retryVars, cbVars, senderVars, c_exc, lifxVars, rx_pc, rx_count,
                 clientVars, packetVars>>

\* ======================================================================
\* class PacketReceiver                       src/lazylights.py 236-286
\* ======================================================================

\* the hardware addresses of the bulbs on the network
BulbMacs == {"d0:73:d5:00:00:01", "d0:73:d5:00:00:02"}

\* a datagram as parse_packet and parse_payload read it: the header
\* fields in use, the payload, and the address it came from
Datagram(packet_type, mac, gw, payload, addr) ==
  [header |-> [mac |-> mac, gateway |-> gw, packet_type |-> packet_type],
   payload |-> payload, addr |-> addr]

\* what may arrive: gateway advertisements for either service, and
\* power-state and light-state reports of the bulbs
Datagrams ==
  {Datagram(RESP_GATEWAY, m, m, [service |-> sv, port |-> pt], a) :
     m \in GatewayMacs, sv \in {SERVICE_UDP, SERVICE_TCP}, pt \in Ports, a \in {"10.0.0.1"}}
  \cup {Datagram(RESP_POWER_STATE, m, g, [is_on |-> 1], "10.0.0.1") :
          m \in BulbMacs, g \in GatewayMacs}
  \cup {Datagram(RESP_LIGHT_STATE, m, g, [power |-> 1, label |-> "lamp"], "10.0.0.1") :
          m \in BulbMacs, g \in GatewayMacs}

\* a second gateway on the network, at another address
OtherGateway == Gateway("10.0.0.2", "56700", "aa:bb:cc:dd:ee:ff")

\* what may arrive on a busy network: besides the above, the advertisement
\* of the second gateway and a packet of a type without a payload layout
ListenDatagrams ==
  Datagrams
  \cup {Datagram(RESP_GATEWAY, OtherGateway.mac, OtherGateway.mac,
                 [service |-> SERVICE_UDP, port |-> OtherGateway.port], OtherGateway.addr)}
  \cup {Datagram(RESP_OTHER, m, g, [rest |-> "bytes"], "10.0.0.1") :
          m \in {"d0:73:d5:00:00:01"}, g \in GatewayMacs}

\* the message the Receiver puts for a datagram (278-286)
Received(d) ==
  IF d.header.packet_type \in PAYLOADS
  THEN [event |-> d.header.packet_type, header |-> d.header,
        payload |-> d.payload, addr |-> d.addr]
  ELSE [event |-> EVENT_UNKNOWN, header |-> d.header,
        rest |-> d.payload, addr |-> d.addr]

\* a loop that never tests the Event
ReceiverLoopForever == "recv"

\* while not self._shutdown.is_set(): where the loop goes after a turn
ReceiverLoop == IF ev["is_shutdown"] THEN "exit" ELSE "recv"

\* sock.recvfrom raises socket.timeout: continue
receiver_timeout ==
  /\ rx_pc = "recv"
  /\ rx_pc' = ReceiverLoop
  /\ UNCHANGED <<ev, retryVars, cbVars, l_queue, senderVars, c_exc, lifxVars, rx_count,
                 l_pc, clientVars, packetVars>>

\* sock.recvfrom returns datagram d: parse it and put it for the dispatcher
\* (the message is numbered, for the record of handler calls)
receiver_recv(d) ==
  /\ rx_pc = "recv"
  /\ rx_count < (IF mode \in {"connect", "pass", "forever"} THEN MaxConnectRecv ELSE MaxRecv)
  /\ Len(cb_queue) < MaxQueue
  /\ rx_count' = rx_count + 1
  /\ cb_queue' = QueuePut(cb_queue, Received(d) @@ [id |-> rx_count + 1])
  /\ rx_pc' = ReceiverLoop
  /\ UNCHANGED <<cb_callbacks, cb_pc, cb_msg, cb_idx, cb_live, cb_seen, cb_puts, cb_log>>
  /\ UNCHANGED <<ev, retryVars, l_queue, senderVars, c_exc, lifxVars, l_pc, clientVars, packetVars>>

\* sock.recvfrom returns bytes that do not unpack (fewer than the 36 bytes
\* of BASE_FORMAT, or a payload of the wrong length for its type):
\* struct.unpack raises struct.error in parse_packet or parse_payload;
\* run() catches socket.timeout only, so the exception ends the thread
receiver_recv_malformed ==
  /\ rx_pc = "recv"
  /\ rx_count < (IF mode \in {"connect", "pass", "forever"} THEN MaxConnectRecv ELSE MaxRecv)
  /\ rx_count' = rx_count + 1
  /\ rx_pc' = "dead"
  /\ UNCHANGED <<ev, retryVars, cbVars, l_queue, senderVars, c_exc, lifxVars, l_pc,
                 clientVars, packetVars>>

\* ======================================================================
\* class Lifx: the built-in callbacks         src/lazylights.py 427-478
\* ======================================================================

BuiltIn == {"_on_gateway", "_on_power_state", "_on_light_state"}

\* the keys of the session's dispatcher
Keys ==
  PAYLOADS \cup {EVENT_DISCOVERED, EVENT_CONNECTED, EVENT_BULBS_FOUND, EVENT_UNKNOWN,
                 EVENT_LIGHT_STATE, EVENT_POWER_STATE, "shutdown", RESP_OTHER}

\* Lifx.get_bulb(mac): the Bulb on record, or one with a made-up label
get_bulb(mac) ==
  [mac |-> mac, label |-> IF mac \in bulbs THEN "lamp" ELSE "Bulb " \o mac]

\* the dispatcher is about to call the built-in callback fn
Calling(fn) == cb_pc = "for" /\ HasNextFn /\ NextFn = fn

\* an _on_gateway that sets the Event for an advert of either service
on_gateway_any_service ==
  /\ Calling("_on_gateway")
  /\ IF cb_msg.payload.service = SERVICE_UDP
     THEN gateway' = Gateway(cb_msg.addr, cb_msg.payload.port, cb_msg.header.gateway)
     ELSE UNCHANGED gateway
  /\ ev' = [ev EXCEPT !["gateway_found_event"] = TRUE]
  /\ cb_idx' = cb_idx + 1
  /\ UNCHANGED <<cb_callbacks, cb_queue, cb_pc, cb_msg, cb_live, cb_seen, cb_puts, cb_log>>
  /\ UNCHANGED <<num_bulbs, bulbs, power_state, light_state, lock>>
  /\ UNCHANGED <<retryVars, l_queue, senderVars, c_exc, workerVars, clientVars, packetVars>>

\* Lifx._on_gateway (427-433)
on_gateway ==
  /\ Calling("_on_gateway")
  /\ IF cb_msg.payload.service = SERVICE_UDP
     THEN /\ gateway' = Gateway(cb_msg.addr, cb_msg.payload.port, cb_msg.header.gateway)
          /\ ev' = [ev EXCEPT !["gateway_found_event"] = TRUE]
     ELSE UNCHANGED <<gateway, ev>>
  /\ cb_idx' = cb_idx + 1
  /\ UNCHANGED <<cb_callbacks, cb_queue, cb_pc, cb_msg, cb_live, cb_seen, cb_puts, cb_log>>
  /\ UNCHANGED <<num_bulbs, bulbs, power_state, light_state, lock>>
  /\ UNCHANGED <<retryVars, l_queue, senderVars, c_exc, workerVars, clientVars, packetVars>>

\* Lifx._on_power_state, the block under the lock (440-443), up to its end
on_power_state ==
  /\ Calling("_on_power_state")
  /\ lock = "none"
  /\ lock' = "dispatcher"
  /\ power_state' = power_state \cup {cb_msg.header.mac}
  /\ ev' = IF Cardinality(power_state') >= num_bulbs
           THEN [ev EXCEPT !["power_state_event"] = TRUE]
           ELSE ev
  /\ cb_pc' = "locked"
  /\ UNCHANGED <<cb_callbacks, cb_queue, cb_msg, cb_idx, cb_live, cb_seen, cb_puts, cb_log>>
  /\ UNCHANGED <<num_bulbs, gateway, bulbs, light_state>>
  /\ UNCHANGED <<retryVars, l_queue, senderVars, c_exc, workerVars, clientVars, packetVars>>

\* Lifx._on_light_state, the block under the lock (453-461), up to its end
on_light_state ==
  /\ Calling("_on_light_state")
  /\ lock = "none"
  /\ lock' = "dispatcher"
  /\ bulbs' = bulbs \cup {cb_msg.header.mac}
  /\ light_state' = light_state \cup {cb_msg.header.mac}
  /\ ev' = [ev EXCEPT
             !["bulbs_found_event"] = @ \/ Cardinality(bulbs') >= num_bulbs,
             !["light_state_event"] = @ \/ Cardinality(light_state') >= num_bulbs]
  /\ cb_pc' = "locked"
  /\ UNCHANGED <<cb_callbacks, cb_queue, cb_msg, cb_idx, cb_live, cb_seen, cb_puts, cb_log>>
  /\ UNCHANGED <<num_bulbs, gateway, power_state>>
  /\ UNCHANGED <<retryVars, l_queue, senderVars, c_exc, workerVars, clientVars, packetVars>>

\* the high-level event a report is forwarded as (445-446, 463-469)
Forwarded(msg) ==
  [event |-> IF msg.event = RESP_POWER_STATE THEN EVENT_POWER_STATE ELSE EVENT_LIGHT_STATE,
   bulb |-> get_bulb(msg.header.mac)]

\* the end of the with block of either report callback, and the
\* self.callbacks.put that follows it
on_state_forward ==
  /\ cb_pc = "locked"
  /\ lock' = "none"
  /\ cb_queue' = QueuePut(cb_queue, Forwarded(cb_msg))
  /\ cb_idx' = cb_idx + 1
  /\ cb_pc' = "for"
  /\ UNCHANGED <<cb_callbacks, cb_msg, cb_live, cb_seen, cb_puts, cb_log>>
  /\ UNCHANGED <<num_bulbs, gateway, bulbs, power_state, light_state>>
  /\ UNCHANGED <<ev, retryVars, l_queue, senderVars, c_exc, workerVars, clientVars, packetVars>>

\* ======================================================================
\* build_packet, parse_packet                 src/lazylights.py 9-10, 53-105
\* ======================================================================

\* _FORMAT_SIZE = struct.calcsize(BASE_FORMAT), BASE_FORMAT being
\* '<HHxxxx6sxx6sxxQHxx'
FORMAT_SIZE == 36

\* the number a packet type code, a protocol tag or the timestamp stands for
Value(code) ==
  CASE code = "0" -> 0
    [] code = "0x02" -> 2
    [] code = "0x03" -> 3
    [] code = "0x15" -> 21
    [] code = "0x16" -> 22
    [] code = "0x19" -> 25
    [] code = "0x65" -> 101
    [] code = "0x66" -> 102
    [] code = "0x6b" -> 107
    [] code = "0x3400" -> 13312
    [] code = "0x5400" -> 21504

\* the six bytes of a hardware address
MacBytes(mac) ==
  CASE mac = "00:00:00:00:00:00" -> <<0, 0, 0, 0, 0, 0>>
    [] mac = "99:88:77:66:55:44" -> <<153, 136, 119, 102, 85, 68>>
    [] mac = "aa:bb:cc:dd:ee:ff" -> <<170, 187, 204, 221, 238, 255>>
    [] mac = "d0:73:d5:00:00:01" -> <<208, 115, 213, 0, 0, 1>>
    [] mac = "d0:73:d5:00:00:02" -> <<208, 115, 213, 0, 0, 2>>

\* the bytes of a payload given as hexadecimal digits
PayloadBytes(payload) ==
  CASE payload = "" -> <<>>
    [] payload = "0000" -> <<0, 0>>
    [] payload = "0001" -> <<0, 1>>

\* struct.pack of one field of a '<' format: H (two bytes) and Q (eight),
\* low byte first, and x (padding)
RECURSIVE PackLE(_, _)
PackLE(n, k) == IF k = 0 THEN <<>> ELSE <<n % 256>> \o PackLE(n \div 256, k - 1)
PackH(n) == PackLE(n, 2)
PackQ(n) == PackLE(n, 8)
Pad(k) == [i \in 1..k |-> 0]

\* struct.unpack of an H or a Q field that starts at byte `at`
UnpackH(data, at) == data[at] + 256 * data[at + 1]
RECURSIVE UnpackLE(_, _, _)
UnpackLE(data, at, k) ==
  IF k = 0 THEN 0 ELSE data[at] + 256 * UnpackLE(data, at + 1, k - 1)
UnpackQ(data, at) == UnpackLE(data, at, 8)

\* build_packet (77-105): the fields it packs
build_packet(packet_type, gw, bulb, payload, protocol) ==
  [packet_type |-> packet_type, protocol |-> protocol, mac |-> bulb,
   gateway |-> gw, time |-> "0", payload |-> payload]

\* the bytestring build_packet returns: struct.pack(BASE_FORMAT +
\* payload_fmt, packet_size, protocol, bulb, gateway, 0, packet_type,
\* *payload_args), with packet_size = struct.calcsize(packet_fmt)
Packed(packet) ==
  LET payload == PayloadBytes(packet.payload)
      packet_size == FORMAT_SIZE + Len(payload)
  IN PackH(packet_size) \o PackH(Value(packet.protocol)) \o Pad(4)
       \o MacBytes(packet.mac) \o Pad(2)
       \o MacBytes(packet.gateway) \o Pad(2)
       \o PackQ(Value(packet.time))
       \o PackH(Value(packet.packet_type)) \o Pad(2)
       \o payload

\* parse_packet(data) (53-63): struct.unpack(BASE_FORMAT, data[:36]) into a
\* Header, and the bytes behind it; fewer than 36 bytes do not unpack
parse_packet(data) ==
  IF Len(data) < FORMAT_SIZE
  THEN [error |-> "struct.error"]
  ELSE [header |-> [size |-> UnpackH(data, 1), protocol |-> UnpackH(data, 3),
                    mac |-> SubSeq(data, 9, 14), gateway |-> SubSeq(data, 17, 22),
                    time |-> UnpackQ(data, 25), packet_type |-> UnpackH(data, 33)],
        rest |-> SubSeq(data, FORMAT_SIZE + 1, Len(data))]

NoPacket == [none |-> TRUE]

\* the arguments a caller hands to build_packet; protocol is the keyword
\* argument, COMMAND_PROTOCOL when it is left out
PacketArgs ==
  [packet_type : {REQ_GATEWAY, REQ_SET_POWER_STATE, REQ_GET_LIGHT_STATE, RESP_POWER_STATE},
   gateway : {"99:88:77:66:55:44", ALL_BULBS},
   bulb : {ALL_BULBS, "d0:73:d5:00:00:01", "d0:73:d5:00:00:02"},
   payload : {"", "0000", "0001"},
   protocol : {COMMAND_PROTOCOL, DISCOVERY_PROTOCOL}]

\* packet = build_packet(packet_type, gateway, bulb, payload_fmt, *payload_args)
call_build_packet ==
  /\ pk_args # NoPacket
  /\ pk_bytes = <<>>
  /\ pk_bytes' = Packed(build_packet(pk_args.packet_type, pk_args.gateway, pk_args.bulb,
                                      pk_args.payload, pk_args.protocol))
  /\ UNCHANGED <<pk_args, pk_parsed>>
  /\ UNCHANGED <<ev, retryVars, cbVars, l_queue, senderVars, c_exc, lifxVars, workerVars,
                 mode, c_attempts, c_pc, c_calls, sps_timeout, sps_result, lifecycle>>

\* header, data = parse_packet(packet)
call_parse_packet ==
  /\ pk_bytes # <<>>
  /\ pk_parsed = NoPacket
  /\ pk_parsed' = parse_packet(pk_bytes)
  /\ UNCHANGED <<pk_args, pk_bytes>>
  /\ UNCHANGED <<ev, retryVars, cbVars, l_queue, senderVars, c_exc, lifxVars, workerVars,
                 mode, c_attempts, c_pc, c_calls, sps_timeout, sps_result, lifecycle>>

\* no caller of build_packet on its own
PacketIdle == pk_args = NoPacket /\ pk_bytes = <<>> /\ pk_parsed = NoPacket

\* ======================================================================
\* class Lifx: send, set_power_state          src/lazylights.py 482-500
\* ======================================================================

\* Lifx.send(packet_type, bulb, packet_fmt, *packet_args): build the packet
\* with the session gateway's hardware address, log it, put it for the
\* Sender.  (With self.gateway None, self.gateway.mac raises instead.)
send(packet_type, bulb, payload) ==
  /\ gateway # NoGateway
  /\ LoggerKeepsUp
  /\ l_queue' = LoggerCall(l_queue)
  /\ s_queue' = QueuePut(s_queue, build_packet(packet_type, gateway.mac, bulb, payload,
                                               COMMAND_PROTOCOL))

NoResult == [none |-> TRUE]

\* the Event set_power_state hands to _blocking (495)
SetPowerEvent == "light_state_event"

\* set_power_state, entering _blocking (182-184): with lock:
\* state_dict.clear(); event.clear()
set_power_state_clear(timeout) ==
  /\ mode \in {"run", "calls", "light"}
  /\ c_pc = "body"
  /\ c_calls < (IF mode \in {"calls", "light"} THEN MaxRepeatCalls ELSE MaxCalls)
  /\ lock = "none"
  /\ lock' = "client"
  /\ power_state' = {}
  /\ ev' = [ev EXCEPT ![SetPowerEvent] = FALSE]
  /\ sps_timeout' = timeout
  /\ c_calls' = c_calls + 1
  /\ c_pc' = "sps_send"
  /\ UNCHANGED <<num_bulbs, gateway, bulbs, light_state>>
  /\ UNCHANGED <<packetVars, mode, c_attempts, sps_result, lifecycle>>
  /\ UNCHANGED <<retryVars, cbVars, l_queue, senderVars, c_exc, workerVars>>

\* self.send(REQ_SET_POWER_STATE, bulb, '2s', '\x00\x01' if is_on else '\x00\x00')
set_power_state_send(is_on, bulb) ==
  /\ c_pc = "sps_send"
  /\ send(REQ_SET_POWER_STATE, bulb, IF is_on THEN "0001" ELSE "0000")
  /\ c_pc' = "sps_refresh"
  /\ UNCHANGED <<s_gateway, s_pc, s_sent, s_puts>>
  /\ UNCHANGED <<packetVars, mode, c_attempts, c_calls, sps_timeout, sps_result, lifecycle>>
  /\ UNCHANGED <<ev, retryVars, cbVars, c_exc, lifxVars, workerVars>>

\* self.send(REQ_GET_LIGHT_STATE, ALL_BULBS, ''), and the end of the with
\* lock block of _blocking
set_power_state_refresh ==
  /\ c_pc = "sps_refresh"
  /\ send(REQ_GET_LIGHT_STATE, ALL_BULBS, "")
  /\ lock' = "none"
  /\ c_pc' = "sps_wait"
  /\ UNCHANGED <<s_gateway, s_pc, s_sent, s_puts>>
  /\ UNCHANGED <<num_bulbs, gateway, bulbs, power_state, light_state>>
  /\ UNCHANGED <<packetVars, mode, c_attempts, c_calls, sps_timeout, sps_result, lifecycle>>
  /\ UNCHANGED <<ev, retryVars, cbVars, c_exc, workerVars>>

\* event.wait(timeout) of _blocking (186) comes back, because the Event is
\* set or because a timeout was given and has passed; return self.power_state
set_power_state_return ==
  /\ c_pc = "sps_wait"
  /\ ev[SetPowerEvent] \/ sps_timeout # "None"
  /\ sps_result' = [how |-> IF ev[SetPowerEvent] THEN "set" ELSE "timeout",
                    mapping |-> power_state,
                    power_ready |-> ev["power_state_event"]]
  /\ c_pc' = "body"
  /\ UNCHANGED <<packetVars, mode, c_attempts, c_calls, sps_timeout, lifecycle>>
  /\ UNCHANGED <<ev, retryVars, cbVars, l_queue, senderVars, c_exc, lifxVars, workerVars>>

\* a set_light_state_raw that empties the mapping and leaves the Event
set_light_state_raw_clear_mapping(timeout) ==
  /\ mode = "light"
  /\ c_pc = "body"
  /\ c_calls < MaxRepeatCalls
  /\ lock = "none"
  /\ lock' = "client"
  /\ light_state' = {}
  /\ sps_timeout' = timeout
  /\ c_calls' = c_calls + 1
  /\ c_pc' = "sls_send"
  /\ UNCHANGED <<num_bulbs, gateway, bulbs, power_state>>
  /\ UNCHANGED <<packetVars, mode, c_attempts, sps_result, lifecycle>>
  /\ UNCHANGED <<ev, retryVars, cbVars, l_queue, senderVars, c_exc, workerVars>>

\* set_light_state_raw, entering _blocking (182-184) with self.light_state
\* and self.light_state_event (507): with lock: state_dict.clear();
\* event.clear()
set_light_state_raw_clear(timeout) ==
  /\ mode = "light"
  /\ c_pc = "body"
  /\ c_calls < MaxRepeatCalls
  /\ lock = "none"
  /\ lock' = "client"
  /\ light_state' = {}
  /\ ev' = [ev EXCEPT !["light_state_event"] = FALSE]
  /\ sps_timeout' = timeout
  /\ c_calls' = c_calls + 1
  /\ c_pc' = "sls_send"
  /\ UNCHANGED <<num_bulbs, gateway, bulbs, power_state>>
  /\ UNCHANGED <<packetVars, mode, c_attempts, sps_result, lifecycle>>
  /\ UNCHANGED <<retryVars, cbVars, l_queue, senderVars, c_exc, workerVars>>

\* self.send(REQ_SET_LIGHT_STATE, bulb, 'xHHHHI', hue, saturation,
\* brightness, kelvin, 0)
set_light_state_raw_send(bulb) ==
  /\ c_pc = "sls_send"
  /\ send(REQ_SET_LIGHT_STATE, bulb, "hsbk")
  /\ c_pc' = "sls_refresh"
  /\ UNCHANGED <<s_gateway, s_pc, s_sent, s_puts>>
  /\ UNCHANGED <<packetVars, mode, c_attempts, c_calls, sps_timeout, sps_result, lifecycle>>
  /\ UNCHANGED <<ev, retryVars, cbVars, c_exc, lifxVars, workerVars>>

\* self.send(REQ_GET_LIGHT_STATE, ALL_BULBS, ''), and the end of the with
\* lock block of _blocking
set_light_state_raw_refresh ==
  /\ c_pc = "sls_refresh"
  /\ send(REQ_GET_LIGHT_STATE, ALL_BULBS, "")
  /\ lock' = "none"
  /\ c_pc' = "sls_wait"
  /\ UNCHANGED <<s_gateway, s_pc, s_sent, s_puts>>
  /\ UNCHANGED <<num_bulbs, gateway, bulbs, power_state, light_state>>
  /\ UNCHANGED <<packetVars, mode, c_attempts, c_calls, sps_timeout, sps_result, lifecycle>>
  /\ UNCHANGED <<ev, retryVars, cbVars, c_exc, workerVars>>

\* event.wait(timeout) of _blocking (186) comes back; return self.light_state
set_light_state_raw_return ==
  /\ c_pc = "sls_wait"
  /\ ev["light_state_event"] \/ sps_timeout # "None"
  /\ c_pc' = "body"
  /\ UNCHANGED <<packetVars, mode, c_attempts, c_calls, sps_timeout, sps_result, lifecycle>>
  /\ UNCHANGED <<ev, retryVars, cbVars, l_queue, senderVars, c_exc, lifxVars, workerVars>>

\* ======================================================================
\* Lifx.connect                               src/lazylights.py 580-623
\* ======================================================================

\* connect(attempts=20, delay=0.5)
DefaultAttempts == 20

\* the start of a for loop over _retry(event, attempts, delay)
StartRetry(event, attempts) ==
  /\ r_event' = event
  /\ r_attempts' = attempts
  /\ r_pc' = "clear"
  /\ effects' = 0
  /\ UNCHANGED <<attempted, ok, set_in_wait>>

\* an exception leaves connect
Raise(exc) ==
  /\ c_exc' = exc
  /\ c_pc' = "raised"
  /\ r_pc' = "idle"
  /\ UNCHANGED <<r_event, r_attempts, attempted, ok, effects, set_in_wait>>

\* a connect that goes on whatever the loop yielded
FailedNever(is_ok) == FALSE
\* if not ok: raise ConnectException(...)
Failed(is_ok) == ~is_ok

\* self.callbacks.put(event) of a lifecycle event
PutLifecycle(event) ==
  /\ cb_queue' = QueuePut(cb_queue, [event |-> event])
  /\ lifecycle' = Append(lifecycle, event)
  /\ UNCHANGED <<cb_callbacks, cb_pc, cb_msg, cb_idx, cb_live, cb_seen, cb_puts, cb_log>>

\* the call of connect: the socket, the discovery packet, and the first
\* for loop (597-604)
connect_start ==
  /\ c_pc = "connect"
  /\ c_pc' = "discover"
  /\ StartRetry("gateway_found_event", c_attempts)
  /\ UNCHANGED <<packetVars, mode, c_attempts, c_calls, sps_timeout, sps_result, lifecycle>>
  /\ UNCHANGED <<ev, cbVars, l_queue, senderVars, c_exc, lifxVars, workerVars>>

\* sock.sendto(discover_packet, BROADCAST_ADDRESS)
connect_broadcast ==
  /\ c_pc = "discover"
  /\ InBody
  /\ effects < MaxRounds
  /\ effects' = effects + 1
  /\ r_pc' = RetryResume
  /\ UNCHANGED <<r_event, r_attempts, attempted, ok, set_in_wait>>
  /\ UNCHANGED <<ev, cbVars, l_queue, senderVars, c_exc, lifxVars, workerVars, clientVars, packetVars>>

\* sock.sendto fails (the network is unreachable): socket.error leaves connect
connect_broadcast_fails ==
  /\ c_pc = "discover"
  /\ InBody
  /\ Raise("socket.error")
  /\ UNCHANGED <<packetVars, mode, c_attempts, c_calls, sps_timeout, sps_result, lifecycle>>
  /\ UNCHANGED <<ev, cbVars, l_queue, senderVars, lifxVars, workerVars>>

\* the first loop is over (606-608), and the second starts (611)
connect_discovered ==
  /\ c_pc = "discover"
  /\ r_pc = "stop"
  /\ IF Failed(ok)
     THEN /\ Raise("ConnectException: discovery failed")
          /\ UNCHANGED <<cbVars, lifecycle>>
     ELSE /\ PutLifecycle(EVENT_DISCOVERED)
          /\ c_pc' = "bind"
          /\ StartRetry("is_connected", 1)
          /\ UNCHANGED c_exc
  /\ UNCHANGED <<packetVars, mode, c_attempts, c_calls, sps_timeout, sps_result>>
  /\ UNCHANGED <<ev, l_queue, senderVars, lifxVars, workerVars>>

\* self.sender.put(self.gateway)
connect_bind ==
  /\ c_pc = "bind"
  /\ InBody
  /\ effects < MaxRounds
  /\ effects' = effects + 1
  /\ r_pc' = RetryResume
  /\ s_queue' = QueuePut(s_queue, gateway)
  /\ UNCHANGED <<r_event, r_attempts, attempted, ok, set_in_wait>>
  /\ UNCHANGED <<s_gateway, s_pc, s_sent, s_puts>>
  /\ UNCHANGED <<ev, cbVars, l_queue, c_exc, lifxVars, workerVars, clientVars, packetVars>>

\* the second loop is over (613-615), and the third starts (618)
connect_connected ==
  /\ c_pc = "bind"
  /\ r_pc = "stop"
  /\ IF Failed(ok)
     THEN /\ Raise("ConnectException: connection failed")
          /\ UNCHANGED <<cbVars, lifecycle>>
     ELSE /\ PutLifecycle(EVENT_CONNECTED)
          /\ c_pc' = "find_bulbs"
          /\ StartRetry("bulbs_found_event", c_attempts)
          /\ UNCHANGED c_exc
  /\ UNCHANGED <<packetVars, mode, c_attempts, c_calls, sps_timeout, sps_result>>
  /\ UNCHANGED <<ev, l_queue, senderVars, lifxVars, workerVars>>

\* self.send(REQ_GET_LIGHT_STATE, ALL_BULBS, '')
connect_get_light_state ==
  /\ c_pc = "find_bulbs"
  /\ InBody
  /\ effects < MaxRounds
  /\ effects' = effects + 1
  /\ r_pc' = RetryResume
  /\ send(REQ_GET_LIGHT_STATE, ALL_BULBS, "")
  /\ UNCHANGED <<r_event, r_attempts, attempted, ok, set_in_wait>>
  /\ UNCHANGED <<s_gateway, s_pc, s_sent, s_puts>>
  /\ UNCHANGED <<ev, cbVars, c_exc, lifxVars, workerVars, clientVars, packetVars>>

\* the third loop is over (620-623) and connect returns: to the body of
\* the with statement under run(), to the caller otherwise
connect_bulbs_found ==
  /\ c_pc = "find_bulbs"
  /\ r_pc = "stop"
  /\ IF Failed(ok)
     THEN /\ Raise("ConnectException: only found some bulbs")
          /\ UNCHANGED <<cbVars, lifecycle>>
     ELSE /\ PutLifecycle(EVENT_BULBS_FOUND)
          /\ c_pc' = IF mode = "connect" THEN "returned" ELSE "body"
          /\ r_pc' = "idle"
          /\ UNCHANGED <<r_event, r_attempts, attempted, ok, effects, set_in_wait>>
          /\ UNCHANGED c_exc
  /\ UNCHANGED <<packetVars, mode, c_attempts, c_calls, sps_timeout, sps_result>>
  /\ UNCHANGED <<ev, l_queue, senderVars, lifxVars, workerVars>>

\* ======================================================================
\* Lifx.run, Lifx.stop                        src/lazylights.py 625-664
\* ======================================================================

\* the four _spawn calls (632-635); a client that calls connect itself
\* starts the same four threads first
run_spawn ==
  /\ c_pc = "init"
  /\ rx_pc' = "recv"
  /\ cb_pc' = "get"
  /\ s_pc' = "get"
  /\ l_pc' = "get"
  /\ c_pc' = "connect"
  /\ UNCHANGED <<cb_callbacks, cb_queue, cb_msg, cb_idx, cb_live, cb_seen, cb_puts, cb_log>>
  /\ UNCHANGED <<s_queue, s_gateway, s_sent, s_puts>>
  /\ UNCHANGED <<packetVars, mode, c_attempts, c_calls, sps_timeout, sps_result, lifecycle>>
  /\ UNCHANGED <<ev, retryVars, l_queue, c_exc, lifxVars, rx_count>>

\* Lifx.stop() (660-664), called by a thread other than that of
\* run_forever: self.receiver.stop(), which sets the Event
stop ==
  /\ mode = "forever"
  /\ ~ev["is_shutdown"]
  /\ ev' = [ev EXCEPT !["is_shutdown"] = TRUE]
  /\ UNCHANGED <<retryVars, cbVars, l_queue, senderVars, c_exc, lifxVars, workerVars,
                 clientVars, packetVars>>

\* the body of the with statement ends (normally, or by an exception that
\* is raised again once the finally block is done): finally: self.stop().
\* The body of run_forever is self.receiver.is_shutdown.wait() (657-658).
run_body_ends(exc) ==
  /\ \/ mode \in {"run", "pass"}
     \/ mode = "forever" /\ ev["is_shutdown"] /\ exc = "none"
  /\ c_pc = "body"
  /\ c_exc' = exc
  /\ ev' = [ev EXCEPT !["is_shutdown"] = TRUE]
  /\ c_pc' = "join_listener"
  /\ UNCHANGED <<packetVars, mode, c_attempts, c_calls, sps_timeout, sps_result, lifecycle>>
  /\ UNCHANGED <<retryVars, cbVars, l_queue, senderVars, lifxVars, workerVars>>

\* a teardown that does not wait for the Receiver's thread
run_skip_join_listener ==
  /\ c_pc = "join_listener"
  /\ cb_queue' = QueuePut(cb_queue, [event |-> "shutdown"])
  /\ c_pc' = "stop_callbacks"
  /\ UNCHANGED <<cb_callbacks, cb_pc, cb_msg, cb_idx, cb_live, cb_seen, cb_puts, cb_log>>
  /\ UNCHANGED <<packetVars, mode, c_attempts, c_calls, sps_timeout, sps_result, lifecycle>>
  /\ UNCHANGED <<ev, retryVars, l_queue, senderVars, c_exc, lifxVars, workerVars>>
\* listener_thr.join(); self.callbacks.put('shutdown')
run_join_listener ==
  /\ c_pc = "join_listener"
  /\ rx_pc = "exit"
  /\ cb_queue' = QueuePut(cb_queue, [event |-> "shutdown"])
  /\ c_pc' = "stop_callbacks"
  /\ UNCHANGED <<cb_callbacks, cb_pc, cb_msg, cb_idx, cb_live, cb_seen, cb_puts, cb_log>>
  /\ UNCHANGED <<packetVars, mode, c_attempts, c_calls, sps_timeout, sps_result, lifecycle>>
  /\ UNCHANGED <<ev, retryVars, l_queue, senderVars, c_exc, lifxVars, workerVars>>

\* for obj in [self.callbacks, self.sender, self.logger]: obj.stop()
run_stop_callbacks ==
  /\ c_pc = "stop_callbacks"
  /\ cb_queue' = QueuePut(cb_queue, SHUTDOWN)
  /\ c_pc' = "stop_sender"
  /\ UNCHANGED <<cb_callbacks, cb_pc, cb_msg, cb_idx, cb_live, cb_seen, cb_puts, cb_log>>
  /\ UNCHANGED <<packetVars, mode, c_attempts, c_calls, sps_timeout, sps_result, lifecycle>>
  /\ UNCHANGED <<ev, retryVars, l_queue, senderVars, c_exc, lifxVars, workerVars>>

run_stop_sender ==
  /\ c_pc = "stop_sender"
  /\ s_queue' = QueuePut(s_queue, SHUTDOWN)
  /\ c_pc' = "stop_logger"
  /\ UNCHANGED <<s_gateway, s_pc, s_sent, s_puts>>
  /\ UNCHANGED <<packetVars, mode, c_attempts, c_calls, sps_timeout, sps_result, lifecycle>>
  /\ UNCHANGED <<ev, retryVars, cbVars, l_queue, c_exc, lifxVars, workerVars>>

run_stop_logger ==
  /\ c_pc = "stop_logger"
  /\ l_queue' = QueuePut(l_queue, SHUTDOWN)
  /\ c_pc' = "join_workers"
  /\ UNCHANGED <<packetVars, mode, c_attempts, c_calls, sps_timeout, sps_result, lifecycle>>
  /\ UNCHANGED <<ev, retryVars, cbVars, senderVars, c_exc, lifxVars, workerVars>>

\* a thread that has left its run(), by return or by an exception
Ended(pc) == pc \in {"exit", "dead"}

\* for thr in [callback_thr, sender_thr, logger_thr]: thr.join(); then
\* run() is left
run_join_workers ==
  /\ c_pc = "join_workers"
  /\ Ended(cb_pc) /\ Ended(s_pc) /\ Ended(l_pc)
  /\ c_pc' = "run_exit"
  /\ UNCHANGED <<packetVars, mode, c_attempts, c_calls, sps_timeout, sps_result, lifecycle>>
  /\ UNCHANGED <<ev, retryVars, cbVars, l_queue, senderVars, c_exc, lifxVars, workerVars>>

\* Lifx.__init__ (395-423) for a client that runs a session ("run") or
\* calls connect(attempts, delay) itself ("connect")
InitLifx ==
  /\ num_bulbs \in 1..(IF mode \in {"connect", "pass", "calls", "light", "forever"} THEN MaxConnectBulbs ELSE MaxBulbs)
  /\ gateway = NoGateway
  /\ bulbs = {}
  /\ power_state = {}
  /\ light_state = {}
  /\ lock = "none"
  /\ ev = [e \in EventNames |-> FALSE]
  /\ l_queue = <<>>
  /\ cb_callbacks = [k \in Keys |->
                       IF k = RESP_GATEWAY THEN <<"_on_gateway">>
                       ELSE IF k = RESP_POWER_STATE THEN <<"_on_power_state">>
                       ELSE IF k = RESP_LIGHT_STATE THEN <<"_on_light_state">>
                       ELSE <<>>]
  /\ cb_queue = <<>>
  /\ cb_pc = "idle"
  /\ cb_msg = SHUTDOWN
  /\ cb_idx = 0
  /\ cb_live = FALSE
  /\ cb_seen = 0
  /\ cb_puts = 0
  /\ cb_log = <<>>
  /\ InitSenderOnly
  /\ s_pc = "idle"
  /\ rx_pc = "idle"
  /\ rx_count = 0
  /\ l_pc = "idle"
  /\ r_event = "event"
  /\ r_attempts = 0
  /\ attempted = 0
  /\ ok = FALSE
  /\ r_pc = "idle"
  /\ effects = 0
  /\ set_in_wait = 0
  /\ c_attempts \in (IF mode = "connect" THEN 0..MaxConnectAttempts ELSE {DefaultAttempts})
  /\ c_pc = "init"
  /\ c_calls = 0
  /\ sps_timeout = "None"
  /\ sps_result = NoResult
  /\ lifecycle = <<>>
  /\ PacketIdle

\* with lifx.run(): a body of set_power_state calls
Init == mode = "run" /\ InitLifx

\* the steps of connect
Connect ==
  \/ connect_start
  \/ RetryStep
  \/ connect_broadcast
  \/ connect_broadcast_fails
  \/ connect_discovered
  \/ connect_bind
  \/ connect_connected
  \/ connect_get_light_state
  \/ connect_bulbs_found

\* the datagrams the network delivers to a session: a bulb reports its power
\* state in answer to a REQ_SET_POWER_STATE the Sender has transmitted;
\* gateway adverts and light reports arrive at any time
Delivered(d) ==
  d.header.packet_type = RESP_POWER_STATE =>
    \E p \in s_sent : p[1].packet_type = REQ_SET_POWER_STATE

\* the steps of the four worker threads
Workers ==
  \/ receiver_timeout
  \/ \E d \in Datagrams : Delivered(d) /\ receiver_recv(d)
  \/ callbacks_get
  \/ callbacks_next
  \/ on_gateway
  \/ on_power_state
  \/ on_light_state
  \/ on_state_forward
  \/ sender_run
  \/ logger_run

Next ==
  \/ run_spawn
  \/ Connect
  \/ \E t \in {"None", "finite"} : set_power_state_clear(t)
  \/ \E is_on \in BOOLEAN : set_power_state_send(is_on, ALL_BULBS)
  \/ set_power_state_refresh
  \/ set_power_state_return
  \/ \E exc \in {"none", "body raised"} : run_body_ends(exc)
  \/ run_join_listener
  \/ run_stop_callbacks
  \/ run_stop_sender
  \/ run_stop_logger
  \/ run_join_workers
  \/ Workers

Spec == Init /\ [][Next]_vars

\* lifx.connect(attempts, delay) by a client that started the threads
InitConnect == mode = "connect" /\ InitLifx

\* no set_power_state is called, so no power report is delivered and
\* _on_power_state is not run
NextConnect ==
  \/ run_spawn
  \/ Connect
  \/ receiver_timeout
  \/ \E d \in Datagrams : Delivered(d) /\ receiver_recv(d)
  \/ callbacks_get
  \/ callbacks_next
  \/ on_gateway
  \/ on_light_state
  \/ on_state_forward
  \/ sender_run
  \/ logger_run

SpecConnect == InitConnect /\ [][NextConnect]_vars

\* with lifx.run(): pass, a session whose body does nothing
InitPass == mode = "pass" /\ InitLifx

NextPass ==
  \/ run_spawn
  \/ Connect
  \/ \E exc \in {"none", "body raised"} : run_body_ends(exc)
  \/ run_join_listener
  \/ run_stop_callbacks
  \/ run_stop_sender
  \/ run_stop_logger
  \/ run_join_workers
  \/ receiver_timeout
  \/ \E d \in Datagrams : Delivered(d) /\ receiver_recv(d)
  \/ callbacks_get
  \/ callbacks_next
  \/ on_gateway
  \/ on_light_state
  \/ on_state_forward
  \/ sender_run
  \/ logger_run

SpecPass == InitPass /\ [][NextPass]_vars

\* with lifx.run(): a body of one set_power_state call after another, as
\* long as the body goes on
InitCalls == mode = "calls" /\ InitLifx

NextCalls ==
  \/ run_spawn
  \/ Connect
  \/ \E t \in {"None", "finite"} : set_power_state_clear(t)
  \/ \E is_on \in BOOLEAN : set_power_state_send(is_on, ALL_BULBS)
  \/ set_power_state_refresh
  \/ set_power_state_return
  \/ Workers

SpecCalls == InitCalls /\ [][NextCalls]_vars

\* with lifx.run(): a body of set_power_state and set_light_state_raw calls
InitLight == mode = "light" /\ InitLifx

NextLight ==
  \/ run_spawn
  \/ Connect
  \/ \E t \in {"None", "finite"} : set_power_state_clear(t)
  \/ \E is_on \in BOOLEAN : set_power_state_send(is_on, ALL_BULBS)
  \/ set_power_state_refresh
  \/ set_power_state_return
  \/ \E t \in {"None", "finite"} : set_light_state_raw_clear(t)
  \/ set_light_state_raw_send(ALL_BULBS)
  \/ set_light_state_raw_refresh
  \/ set_light_state_raw_return
  \/ Workers

SpecLight == InitLight /\ [][NextLight]_vars

\* lifx.run_forever(), and a thread that may call lifx.stop()
InitForever == mode = "forever" /\ InitLifx

\* the steps of the thread that called run_forever
ForeverClient ==
  \/ run_spawn
  \/ Connect
  \/ run_body_ends("none")
  \/ run_join_listener
  \/ run_stop_callbacks
  \/ run_stop_sender
  \/ run_stop_logger
  \/ run_join_workers

\* the steps of the Receiver's thread
ForeverReceiver ==
  \/ receiver_timeout
  \/ \E d \in Datagrams : Delivered(d) /\ receiver_recv(d)

\* the steps of the dispatcher's thread
ForeverDispatcher ==
  \/ callbacks_get
  \/ callbacks_next
  \/ on_gateway
  \/ on_light_state
  \/ on_state_forward

NextForever ==
  \/ stop
  \/ ForeverClient
  \/ ForeverReceiver
  \/ ForeverDispatcher
  \/ sender_run
  \/ logger_run

\* every thread that can take a step takes one in the end; a socket with
\* nothing to read times out (sock.settimeout, 270)
ForeverFairness ==
  /\ WF_vars(ForeverClient)
  /\ WF_vars(receiver_timeout)
  /\ WF_vars(ForeverDispatcher)
  /\ WF_vars(sender_run)
  /\ WF_vars(logger_run)

SpecForever == InitForever /\ [][NextForever]_vars /\ ForeverFairness

\* the packet type codes a client registers for with on_packet
PacketTypes == PAYLOADS \cup {RESP_OTHER}

\* Lifx.on_packet(packet_type)(fn): self.callbacks.register(packet_type, fn),
\* by a client that sets up its handlers before it starts the session
on_packet(packet_type) ==
  /\ c_pc = "init"
  /\ register(packet_type)

\* a session that listens: the client has registered its handlers and
\* started the threads, and connect is still at its discovery; the network
\* delivers whatever is on it
InitListen == mode = "listen" /\ InitLifx

NextListen ==
  \/ \E t \in PacketTypes : on_packet(t)
  \/ run_spawn
  \/ receiver_timeout
  \/ \E d \in ListenDatagrams : receiver_recv(d)
  \/ receiver_recv_malformed
  \/ callbacks_get
  \/ callbacks_call
  \/ callbacks_next
  \/ on_gateway
  \/ on_power_state
  \/ on_light_state
  \/ on_state_forward
  \/ logger_run

SpecListen == InitListen /\ [][NextListen]_vars

\* the session's variables for a component on its own
LifxIdle ==
  /\ num_bulbs = 1
  /\ gateway = NoGateway
  /\ bulbs = {}
  /\ power_state = {}
  /\ light_state = {}
  /\ lock = "none"
  /\ rx_pc = "idle"
  /\ rx_count = 0
  /\ l_pc = "idle"
  /\ mode = "none"
  /\ c_attempts = 0
  /\ c_pc = "idle"
  /\ c_calls = 0
  /\ sps_timeout = "None"
  /\ sps_result = NoResult
  /\ lifecycle = <<>>

\* ======================================================================
\* The components on their own
\* ======================================================================

InitRetry ==
  /\ ev \in {f \in [EventNames -> BOOLEAN] : \A e \in EventNames \ {"event"} : ~f[e]}
  /\ r_event = "event"
  /\ r_attempts \in 0..MaxAttempts
  /\ attempted = 0
  /\ ok = FALSE
  /\ r_pc = "clear"
  /\ effects = 0
  /\ set_in_wait = 0
  /\ CallbacksIdle
  /\ InitSenderOnly
  /\ s_pc = "idle"
  /\ LifxIdle
  /\ PacketIdle

NextRetry ==
  \/ RetryStep
  \/ side_effect
  \/ event_set

SpecRetry == InitRetry /\ [][NextRetry]_vars

InitCallbacks ==
  InitCallbacksOnly /\ RetryIdle /\ InitSenderOnly /\ s_pc = "idle" /\ LifxIdle
    /\ PacketIdle

NextCallbacks ==
  \/ \E k \in TestKeys : register(k)
  \/ \E t \in Producers, k \in TestKeys : put(t, k)
  \/ stop_callbacks
  \/ callbacks_get
  \/ callbacks_call
  \/ callbacks_call_raises
  \/ callbacks_next

SpecCallbacks == InitCallbacks /\ [][NextCallbacks]_vars

InitSender ==
  InitSenderOnly /\ s_pc = "get" /\ RetryIdle /\ CallbacksIdle /\ LifxIdle /\ PacketIdle

NextSender ==
  \/ \E p \in RawPackets : sender_put(Numbered(p))
  \/ \E g \in Gateways : sender_put_gateway(g)
  \/ sender_stop
  \/ sender_run

SpecSender == InitSender /\ [][NextSender]_vars

\* build_packet and parse_packet on their own, as the unit tests call them
InitPacket ==
  /\ pk_args \in PacketArgs
  /\ pk_bytes = <<>>
  /\ pk_parsed = NoPacket
  /\ ev = [e \in EventNames |-> FALSE]
  /\ RetryIdle /\ CallbacksIdle /\ InitSenderOnly /\ s_pc = "idle" /\ LifxIdle

NextPacket ==
  \/ call_build_packet
  \/ call_parse_packet

SpecPacket == InitPacket /\ [][NextPacket]_vars

\* ======================================================================
\* The claims
\* ======================================================================

\* ----------------------------------------------------------------------
\* the three for loops of connect
ConnectPhases == {"discover", "bind", "find_bulbs"}

\* C1: in each of the three phases of connect, when the phase's signal
\* stays unset the phase ends once its attempt budget is used up, by a
\* ConnectException: connect does not go on with a phase past its budget,
\* so the body of a loop with a budget of N >= 1 never runs more than N
\* times while the signal is unset, and a loop that is over with the signal
\* unset has yielded ok = False.
C1_BudgetEndsPhase ==
  (c_pc \in ConnectPhases /\ r_pc \notin {"idle", "clear"} /\ ~ev[r_event])
    => /\ r_attempts >= 1 => effects <= r_attempts
       /\ r_pc = "stop" => ~ok

\* ----------------------------------------------------------------------
\* C2: in a loop over _retry(event, N, delay) with N >= 1 whose event is
\* never set, the body runs exactly N times and the loop then ends with
\* ok = False: the body never runs more than N times, and at the end it
\* has run N times and ok is False.
C2_ExactlyNAttempts ==
  (r_event = "event" /\ r_pc # "clear" /\ r_attempts >= 1 /\ ~ev["event"])
    => /\ effects <= r_attempts
       /\ (r_pc = "stop" => effects = r_attempts /\ ~ok)

\* C3: when the event is set during the wait that follows the k-th run of
\* the body, the loop ends with ok = True after exactly k runs of the body
\* (there is no run k+1).
C3_NoAttemptAfterSet ==
  (r_event = "event" /\ set_in_wait > 0)
    => /\ effects = set_in_wait
       /\ (r_pc = "stop" => ok)

\* ----------------------------------------------------------------------
\* the lifecycle events in the order of the phases of connect
LifecycleOrder == <<EVENT_DISCOVERED, EVENT_CONNECTED, EVENT_BULBS_FOUND>>

\* connect has returned to its caller without an exception
ConnectReturned ==
  c_pc \in {"returned", "body", "sps_send", "sps_refresh", "sps_wait",
            "join_listener", "stop_callbacks", "stop_sender", "stop_logger",
            "join_workers", "run_exit"}

\* C4: connect goes through its three phases in sequence: the lifecycle
\* events enter the dispatcher queue in the order EVENT_DISCOVERED,
\* EVENT_CONNECTED, EVENT_BULBS_FOUND, each at most once; EVENT_DISCOVERED
\* only once gateway_found_event is set, EVENT_CONNECTED only once the
\* Sender's is_connected is set, EVENT_BULBS_FOUND only once
\* bulbs_found_event is set; and connect returns only after all three.
C4_PhasesInSequence ==
  /\ Len(lifecycle) <= Len(LifecycleOrder)
  /\ lifecycle = SubSeq(LifecycleOrder, 1, Len(lifecycle))
  /\ Len(lifecycle) >= 1 => ev["gateway_found_event"]
  /\ Len(lifecycle) >= 2 => ev["is_connected"]
  /\ Len(lifecycle) >= 3 => ev["bulbs_found_event"]
  /\ ConnectReturned => lifecycle = LifecycleOrder
  /\ c_pc = "find_bulbs" => Len(lifecycle) = 2
  /\ c_pc = "bind" => Len(lifecycle) = 1
  /\ c_pc = "discover" => Len(lifecycle) = 0

\* connect(attempts >= 1) has returned, the three events enqueued, after a
\* phase that had to repeat its request
C4_Witness ==
  /\ mode = "connect"
  /\ c_pc = "returned"
  /\ c_attempts >= 1
  /\ lifecycle = LifecycleOrder
  /\ effects >= 2

\* ----------------------------------------------------------------------
\* C5: set_power_state clears, under the lock, the power-state mapping and
\* the power-state readiness signal, sends its two requests, releases the
\* lock and waits on the power-state readiness signal: while it holds the
\* lock after the clear the mapping is empty and power_state_event unset,
\* and a call without timeout returns only once power_state_event is set,
\* with a mapping of at least num_bulbs entries.
C5_WaitsOnPowerReady ==
  /\ c_pc \in {"sps_send", "sps_refresh"}
       => power_state = {} /\ ~ev["power_state_event"]
  /\ (sps_result # NoResult /\ sps_timeout = "None")
       => /\ sps_result.power_ready
          /\ Cardinality(sps_result.mapping) >= num_bulbs

\* C6: a set_power_state call with a timeout that fewer than num_bulbs
\* bulbs answer returns when the timeout expires, with the reports received
\* up to then: a call that returns fewer than num_bulbs entries has returned
\* by the expiry of its timeout, not before.
C6_PartialAtTimeout ==
  (sps_result # NoResult /\ sps_timeout # "None"
     /\ Cardinality(sps_result.mapping) < num_bulbs)
    => sps_result.how = "timeout"

\* ----------------------------------------------------------------------
\* run() has been left, by its end or by an exception
RunExited == mode = "run" /\ c_pc \in {"raised", "run_exit"}

\* C7: on every way out of run() once the threads are started (connect
\* raises, the body raises, the body ends) the Receiver has been told to
\* stop, and no worker thread is still running when run() is left.
C7_ShutdownOnEveryExit ==
  RunExited
    => /\ ev["is_shutdown"]
       /\ Ended(rx_pc) /\ Ended(cb_pc) /\ Ended(s_pc) /\ Ended(l_pc)

\* ----------------------------------------------------------------------
\* C11: the gateway of a session is bound once: after the first UDP
\* advertisement has bound it, no later advertisement changes its address,
\* port or hardware address, and the Sender's gateway does not change either.
C11_GatewayWriteOnce ==
  [][/\ gateway # NoGateway => gateway' = gateway
     /\ s_gateway # NoGateway => s_gateway' = s_gateway]_vars

\* ----------------------------------------------------------------------
\* the place of a client's function in the order of registration
RegIndex(fn) == CHOOSE i \in 1..Len(FnNames) : FnNames[i] = fn
\* the functions registered for a key so far
RegisteredFor(event) ==
  {cb_callbacks[event][i] : i \in 1..Len(cb_callbacks[event])}
\* fn is the first function registered for the key after the index `after`
NextRegistered(event, after, fn) ==
  /\ fn \in RegisteredFor(event)
  /\ RegIndex(fn) > after
  /\ \A g \in RegisteredFor(event) : ~(after < RegIndex(g) /\ RegIndex(g) < RegIndex(fn))
\* the calls made for the message numbered id
CallsFor(id) == {i \in 1..Len(cb_log) : cb_log[i][1].id = id}

\* the handler calls so far: the first call of each message goes to the
\* first function registered for its key, each further call for the same
\* message to the function registered next, and a call for another message
\* only to a message that entered the queue later
C8_Order ==
  \A i \in 1..Len(cb_log) :
    LET m == cb_log[i][1]
        fn == cb_log[i][2]
    IN IF i > 1 /\ cb_log[i - 1][1].id = m.id
       THEN /\ cb_log[i - 1][1] = m
            /\ NextRegistered(m.event, RegIndex(cb_log[i - 1][2]), fn)
       ELSE /\ NextRegistered(m.event, 0, fn)
            /\ i > 1 => cb_log[i - 1][1].id < m.id

\* one step of the dispatcher: messages are taken in the order of their
\* numbers, none skipped; and it leaves a message only when every function
\* that was registered for its key when it was dequeued has been called for it
C8_Step ==
  /\ (cb_msg' # cb_msg /\ cb_msg' # SHUTDOWN)
        => cb_msg'.id = (IF cb_msg = SHUTDOWN THEN 0 ELSE cb_msg.id) + 1
  /\ (cb_pc = "for" /\ cb_pc' = "get")
        => Cardinality(CallsFor(cb_msg.id)) >= cb_seen
  /\ (cb_pc = "get" /\ cb_pc' = "get" /\ cb_msg' # cb_msg) => cb_seen' = 0

\* C8: whatever the interleaving of put() by several producer threads and
\* of register(), the dispatcher handles the messages in the order in which
\* they entered the queue, and for each message calls the functions
\* registered for its key in the order of registration, all of them before
\* any function is called for the next message.
C8_DispatchOrder == []C8_Order /\ [][C8_Step]_vars

\* two functions called in turn for one message from one producer, then a
\* function for the next message, which another producer put
C8_Witness ==
  /\ Len(cb_log) >= 3
  /\ cb_log[1][1] = cb_log[2][1]
  /\ cb_log[3][1].id > cb_log[2][1].id
  /\ cb_log[3][1].by # cb_log[1][1].by
  /\ cb_pc = "get"

\* C9: a handler that raises does not end the dispatch loop: the thread of
\* Callbacks.run is never ended by a handler's exception, so the handlers
\* left for that message and those of the messages behind it are still called.
C9_HandlerIsolation == cb_pc # "dead"

\* C10: when a raw packet reaches the Sender before any Gateway record was
\* accepted, the 'no gateway' failure (SendException) is raised to the
\* thread that submitted the packet: whenever the Sender has hit it, the
\* submitting thread has got a SendException.
C10_SendErrorReachesCaller == (s_pc = "dead") => (c_exc = "SendException")

\* ----------------------------------------------------------------------
\* C12: a handler registered with on_packet(t), for any packet type code t,
\* is called for every received datagram whose header type is t: once the
\* dispatcher is done with the message of a datagram, every function the
\* client registered for the datagram's header type has been called for it.
C12_HandlerPerType ==
  (cb_pc = "get" /\ "header" \in DOMAIN cb_msg)
    => \A f \in UserFns \cap RegisteredFor(cb_msg.header.packet_type) :
         \E i \in 1..Len(cb_log) : cb_log[i] = <<cb_msg, f>>

\* ----------------------------------------------------------------------
\* OFF_PACKET of the unit tests: 26000014 00000000 00000000 00000000
\* 99887766 55440000 00000000 00000000 15000000 0000
OFF_PACKET ==
  <<38, 0, 0, 20,  0, 0, 0, 0,  0, 0, 0, 0,  0, 0, 0, 0,
    153, 136, 119, 102,  85, 68, 0, 0,  0, 0, 0, 0,  0, 0, 0, 0,
    21, 0, 0, 0,  0, 0>>

\* C13: build_packet(REQ_SET_POWER_STATE, gateway 99 88 77 66 55 44,
\* ALL_BULBS, '2s', '\x00\x00') with the default protocol returns exactly
\* the 38 bytes of OFF_PACKET.
C13_OffPacket ==
  (/\ pk_args = [packet_type |-> REQ_SET_POWER_STATE, gateway |-> "99:88:77:66:55:44",
                 bulb |-> ALL_BULBS, payload |-> "0000", protocol |-> COMMAND_PROTOCOL]
   /\ pk_bytes # <<>>)
    => pk_bytes = OFF_PACKET

\* ----------------------------------------------------------------------
\* C14: a datagram that does not decode is dropped and the Receiver's loop
\* goes on: the thread of PacketReceiver.run is never ended by a malformed
\* datagram, so the well-formed datagrams that follow are still put for
\* the dispatcher.
C14_MalformedDropped == rx_pc # "dead"

\* ----------------------------------------------------------------------
\* the sentinel is the last item of a queue that holds it
SentinelLast(queue) ==
  \A i \in 1..Len(queue) : queue[i] = SHUTDOWN => i = Len(queue)

\* C15: once the teardown of run() has put the shutdown sentinel on the
\* queues of the Dispatcher, the Sender and the Logger, nothing is put on
\* them any more: in each queue the sentinel is the last item, and a thread
\* that has left its loop on the sentinel leaves an empty queue behind.
C15_SentinelFinal ==
  /\ SentinelLast(cb_queue) /\ SentinelLast(s_queue) /\ SentinelLast(l_queue)
  /\ cb_pc = "exit" => cb_queue = <<>>
  /\ s_pc = "exit" => s_queue = <<>>
  /\ l_pc = "exit" => l_queue = <<>>

\* ----------------------------------------------------------------------
\* the sentinel has been put on a queue: it is in it, or the queue's thread
\* has left its loop on it
SentinelPut(queue, pc) ==
  pc = "exit" \/ \E i \in 1..Len(queue) : queue[i] = SHUTDOWN

\* C16: the teardown of run() goes in order: the Receiver's stop flag is
\* set first; the Receiver's thread has ended before any sentinel is put;
\* the sentinels are put for the Dispatcher, then the Sender, then the
\* Logger; and the three threads are joined only after all three sentinels.
C16_TeardownOrder ==
  /\ c_pc \in {"join_listener", "stop_callbacks", "stop_sender", "stop_logger",
               "join_workers", "run_exit"} => ev["is_shutdown"]
  /\ SentinelPut(cb_queue, cb_pc) => ev["is_shutdown"] /\ rx_pc = "exit"
  /\ SentinelPut(s_queue, s_pc) => SentinelPut(cb_queue, cb_pc)
  /\ SentinelPut(l_queue, l_pc) => SentinelPut(s_queue, s_pc)
  /\ c_pc \in {"join_workers", "run_exit"} => SentinelPut(l_queue, l_pc)
  /\ c_pc = "run_exit" => cb_pc = "exit" /\ s_pc = "exit" /\ l_pc = "exit"

\* run() has been left after a connect that succeeded and a complete
\* teardown
C16_Witness ==
  /\ c_pc = "run_exit"
  /\ rx_pc = "exit" /\ cb_pc = "exit" /\ s_pc = "exit" /\ l_pc = "exit"
  /\ lifecycle = LifecycleOrder

\* ----------------------------------------------------------------------
\* the readiness signals of the three mappings
ReadinessSignals == {"bulbs_found_event", "power_state_event", "light_state_event"}

\* a step that changes one of the three mappings, or sets or clears one of
\* their readiness signals (the clear of a _retry loop included, also when
\* the signal was clear already)
TouchesSharedState ==
  \/ bulbs' # bulbs \/ power_state' # power_state \/ light_state' # light_state
  \/ \E e \in ReadinessSignals : ev'[e] # ev[e]
  \/ r_event \in ReadinessSignals /\ r_pc = "clear" /\ r_pc' # "clear"

\* C17: every change of bulbs, power_state and light_state, and every set
\* or clear of bulbs_found_event, power_state_event and light_state_event,
\* is made under the shared lock: a step that makes one is made by the
\* thread that has just taken the lock for it.
C17_LockDiscipline ==
  [][TouchesSharedState => (lock = "none" /\ lock' # "none")]_vars

\* C18: outside a section that holds the lock, power_state_event set means
\* that power_state holds at least num_bulbs entries, also after several
\* set_power_state calls and power-state reports.
C18_PowerReadyConsistent ==
  (lock = "none" /\ ev["power_state_event"])
    => Cardinality(power_state) >= num_bulbs

\* ----------------------------------------------------------------------
\* the positions of the Gateway records put before position n of s_puts
BindingsBefore(n) == {i \in 1..(n - 1) : IsGateway(s_puts[i])}

\* the last of them
LastBindingBefore(n) ==
  s_puts[CHOOSE i \in BindingsBefore(n) : \A j \in BindingsBefore(n) : j <= i]

\* C19: the Sender handles what is put on its queue in the order of the
\* puts: what waits in the queue of a running Sender is the rest of what was
\* put, in order; and a raw packet it has transmitted had a Gateway record
\* put before it, went to the address and port of the last such record, and
\* was transmitted with the connected Event set.
C19_FifoBinding ==
  /\ s_pc = "get" =>
       \E k \in 0..Len(s_puts) : s_queue = SubSeq(s_puts, k + 1, Len(s_puts))
  /\ \A s \in s_sent :
       /\ BindingsBefore(s[1].nr) # {}
       /\ s[2] = <<LastBindingBefore(s[1].nr).addr, LastBindingBefore(s[1].nr).port>>
       /\ ev["is_connected"]

\* a raw packet has been transmitted that was put after two Gateway records
\* of different addresses
C19_Witness ==
  \E s \in s_sent :
    \E i \in BindingsBefore(s[1].nr), j \in BindingsBefore(s[1].nr) :
      i < j /\ s_puts[i].addr # s_puts[j].addr

\* the positions of the sentinel in what was put
Sentinels == {i \in 1..Len(s_puts) : s_puts[i] = SHUTDOWN}

C21_LightReadyConsistent ==
  lock = "none" =>
    /\ ev["light_state_event"] => Cardinality(light_state) >= num_bulbs
    /\ ev["bulbs_found_event"] => Cardinality(bulbs) >= num_bulbs

\* a set_light_state_raw call has emptied the mapping and sent its request,
\* and a light-state report that came after it has filled the mapping and
\* set light_state_event again, with bulbs_found_event set since connect
C21_Witness ==
  /\ lock = "none"
  /\ c_pc \in {"sls_wait", "body"}
  /\ \E p \in s_sent : p[1].packet_type = REQ_SET_LIGHT_STATE
  /\ ev["light_state_event"] /\ Cardinality(light_state) >= num_bulbs
  /\ ev["bulbs_found_event"] /\ Cardinality(bulbs) >= num_bulbs

\* ----------------------------------------------------------------------
\* what build_packet made, as Lifx.send puts it on the Sender's queue
IsPacket(item) == "packet_type" \in DOMAIN item

\* C22: gateway_found_event set means that self.gateway is bound, and the
\* Sender's connected Event set means that the Sender's gateway is bound;
\* so every packet that the third phase of connect or a blocking command
\* has put on the Sender's queue has a Gateway record before it, taken by
\* the Sender already or ahead of it in the queue, and the Sender never
\* hits 'no gateway'.
C22_SendsAfterBinding ==
  /\ ev["gateway_found_event"] => gateway # NoGateway
  /\ ev["is_connected"] => s_gateway # NoGateway
  /\ \A i \in 1..Len(s_queue) :
       IsPacket(s_queue[i]) =>
         \/ s_gateway # NoGateway
         \/ \E j \in 1..(i - 1) : IsGateway(s_queue[j])
  /\ s_pc # "dead"

\* the Sender has transmitted the request of connect's third phase and the
\* request of a blocking command, and another packet waits in its queue
C22_Witness ==
  /\ ev["gateway_found_event"] /\ ev["is_connected"]
  /\ \E p \in s_sent : p[1].packet_type = REQ_GET_LIGHT_STATE
  /\ \E p \in s_sent : p[1].packet_type \in {REQ_SET_POWER_STATE, REQ_SET_LIGHT_STATE}
  /\ \E i \in 1..Len(s_queue) : IsPacket(s_queue[i])

\* ----------------------------------------------------------------------
\* run_forever has got through connect, and stop() has been called
StopCalledAfterConnect ==
  /\ mode = "forever"
  /\ ev["is_shutdown"]
  /\ c_pc \in {"body", "join_listener", "stop_callbacks", "stop_sender", "stop_logger",
               "join_workers", "run_exit"}

\* the Receiver's loop is over, the three workers have taken their sentinel
\* and left their loops, and run_forever has returned
ForeverReturned ==
  /\ c_pc = "run_exit"
  /\ rx_pc = "exit"
  /\ cb_pc = "exit" /\ s_pc = "exit" /\ l_pc = "exit"

\* C23: in a run_forever session whose connect succeeded, once stop() has
\* been called, the Receiver's loop exits, the dispatcher, the Sender and the
\* Logger each take their sentinel and exit, the joins come back and
\* run_forever returns, when every thread is scheduled fairly.
C23_ShutdownCompletes == StopCalledAfterConnect ~> ForeverReturned

\* run_forever has returned after a connect that succeeded and a stop()
C23_Witness ==
  /\ mode = "forever"
  /\ ForeverReturned
  /\ lifecycle = LifecycleOrder

====
